---------------------------- MODULE Spec2Model ----------------------------
(***************************************************************************)
(* Model of core/src/types/ethereum_events.rs: the Uint and EthAddress     *)
(* value types, their textual and byte conversions, and the EthereumEvent  *)
(* enum with its derived ordering and Borsh encoding.                      *)
(*                                                                         *)
(* Every operation of the file is a pure function; each is an operator     *)
(* here, computed the way the code (and the library call it delegates to)  *)
(* computes it.  Three specifications draw inputs from bounded sets and    *)
(* apply the operations:                                                   *)
(*   Spec       EthAddress: to_canonical, from_str, KeySeg                 *)
(*   UintSpec   Uint: From<u64>, to_bytes, derived Ord                     *)
(*   EventSpec  EthereumEvent: derived Ord / Eq, Borsh try_to_vec          *)
(*                                                                         *)
(* Rust strings are sequences of bytes (their UTF-8 encoding); every       *)
(* string used here is ASCII, one byte per character.                      *)
(***************************************************************************)
EXTENDS Integers, Sequences, FiniteSets, TLC

VARIABLES
    addr,    \* the EthAddress in hand: 20 bytes
    text,    \* the String in hand
    edits,   \* how many edits the environment has applied to text
    prev,    \* the call before the last one
    call,    \* the last call: function, argument, result
    ua,      \* a Uint
    ub,      \* a second Uint
    uout,    \* the last Uint operation and its result
    ea,      \* an EthereumEvent
    eb,      \* a second EthereumEvent
    eout     \* the last EthereumEvent operation and its result

addrVars  == <<addr, text, edits, prev, call>>
uintVars  == <<ua, ub, uout>>
eventVars == <<ea, eb, eout>>
vars      == <<addr, text, edits, prev, call, ua, ub, uout, ea, eb, eout>>

-----------------------------------------------------------------------------
(* Bounds of the model *)

\* Edits the environment may apply to the text in hand.
MaxEdits == 1

-----------------------------------------------------------------------------
(* Generic helpers *)

RECURSIVE Concat(_)
\* The concatenation of a sequence of sequences.
Concat(ss) == IF ss = <<>> THEN <<>> ELSE Head(ss) \o Concat(Tail(ss))

Reverse(s) == [i \in 1..Len(s) |-> s[Len(s) + 1 - i]]

Repeat(x, n) == [i \in 1..n |-> x]

\* u8::to_ascii_lowercase
AsciiLowerByte(c) == IF c \in 65..90 THEN c + 32 ELSE c

\* str::to_ascii_lowercase
AsciiLower(s) == [i \in 1..Len(s) |-> AsciiLowerByte(s[i])]

-----------------------------------------------------------------------------
(* EthAddress *)

\* pub struct EthAddress(pub [u8; 20])
ADDR_LEN == 20

\* fmt::LowerHex of one nibble: '0'..'9' are 48..57, 'a'..'f' are 97..102.
LowerHexDigit(n) == IF n < 10 THEN 48 + n ELSE 87 + n

\* write!(f, "{:02x}", byte)
LowerHexByte(b) == <<LowerHexDigit(b \div 16), LowerHexDigit(b % 16)>>

\* format!("{:?}", H160): Debug of a fixed hash is "{:#x}", that is "0x" and
\* then every byte, first to last, as two lower-case hex digits.
H160_Debug(bytes) ==
    <<48, 120>> \o Concat([i \in 1..Len(bytes) |-> LowerHexByte(bytes[i])])

\* Faulty variant of to_canonical: format!("{}", ..) instead of "{:?}".
\* Display of a fixed hash is abridged: "0x", the first two bytes, the
\* ellipsis (three bytes in UTF-8) and the last two bytes.
to_canonical_with_display(a) ==
    <<48, 120>> \o LowerHexByte(a[1]) \o LowerHexByte(a[2]) \o <<226, 128, 166>>
        \o LowerHexByte(a[Len(a) - 1]) \o LowerHexByte(a[Len(a)])

\* fmt::UpperHex of one nibble: 'A'..'F' are 65..70.
UpperHexDigit(n) == IF n < 10 THEN 48 + n ELSE 55 + n

\* Faulty variant of to_canonical: upper-case hex digits ("{:#X}").
to_canonical_upper_hex(a) ==
    <<48, 120>> \o Concat([i \in 1..Len(a) |->
                    <<UpperHexDigit(a[i] \div 16), UpperHexDigit(a[i] % 16)>>])

\* EthAddress::to_canonical
to_canonical(a) == H160_Debug(a)

\* impl Display for EthAddress: write!(f, "{}", self.to_canonical())
Display_fmt(a) == to_canonical(a)

\* impl From<EthAddress> for String: addr.to_string()
String_from(a) == Display_fmt(a)

\* KeySeg::raw
raw(a) == to_canonical(a)

\* str::strip_prefix("0x").unwrap_or(input): the prefix is lower-case and
\* optional.
StripPrefix0x(s) ==
    IF Len(s) >= 2 /\ s[1] = 48 /\ s[2] = 120
    THEN SubSeq(s, 3, Len(s))
    ELSE s

\* The bytes rustc_hex's FromHexIter skips: ' ', '\r', '\n', '\t'.
IsHexWhitespace(c) == c \in {32, 13, 10, 9}

IsHexDigit(c) == (c \in 48..57) \/ (c \in 65..70) \/ (c \in 97..102)

\* b'A'..=b'F' => byte - b'A' + 10, b'a'..=b'f' => byte - b'a' + 10,
\* b'0'..=b'9' => byte - b'0'
HexDigitValue(c) ==
    IF c \in 65..70 THEN c - 65 + 10
    ELSE IF c \in 97..102 THEN c - 97 + 10
    ELSE c - 48

RECURSIVE FromHexIter_next(_, _, _, _)
\* One call of FromHexIter::next from position i of s, with `modulus` digits
\* already shifted into `buf`.  Returns the item and the position after it:
\* Some(Ok(byte)), Some(Err(e)), or None at the end of the input.
FromHexIter_next(s, i, modulus, buf) ==
    IF i > Len(s)
    THEN IF modulus # 0
         THEN [item |-> "Err", err |-> "InvalidHexLength", byte |-> 0, next |-> i]
         ELSE [item |-> "None", err |-> "", byte |-> 0, next |-> i]
    ELSE IF IsHexWhitespace(s[i])
    THEN FromHexIter_next(s, i + 1, modulus, buf)
    ELSE IF ~IsHexDigit(s[i])
    THEN [item |-> "Err", err |-> "InvalidHexCharacter", byte |-> 0, next |-> i + 1]
    ELSE IF modulus = 1
    THEN [item |-> "Ok", err |-> "", byte |-> (buf * 16 + HexDigitValue(s[i])) % 256,
          next |-> i + 1]
    ELSE FromHexIter_next(s, i + 1, 1, HexDigitValue(s[i]))

RECURSIVE H160_fill(_, _, _)
\* The loop of H160::from_str over the 20 bytes of the result, then the check
\* that the iterator is exhausted.
H160_fill(s, i, acc) ==
    IF Len(acc) = ADDR_LEN
    THEN IF FromHexIter_next(s, i, 0, 0).item # "None"
         THEN [ok |-> FALSE, val |-> <<>>, err |-> "InvalidHexLength"]
         ELSE [ok |-> TRUE, val |-> acc, err |-> ""]
    ELSE LET r == FromHexIter_next(s, i, 0, 0) IN
         IF r.item = "None"
         THEN [ok |-> FALSE, val |-> <<>>, err |-> "InvalidHexLength"]
         ELSE IF r.item = "Err"
         THEN [ok |-> FALSE, val |-> <<>>, err |-> r.err]
         ELSE H160_fill(s, r.next, Append(acc, r.byte))

\* ethabi::ethereum_types::Address::from_str
H160_from_str(s) == H160_fill(StripPrefix0x(s), 1, <<>>)

\* Results: Ok(val), or Err of kind err carrying a string.
Ok(v) == [ok |-> TRUE, val |-> v, err |-> "", carried |-> <<>>]
Err(kind, s) == [ok |-> FALSE, val |-> <<>>, err |-> kind, carried |-> s]

\* Faulty variant of from_str: the error is swallowed and the default (zero)
\* address returned, as with unwrap_or_default().
from_str_unwrap_or_default(s) ==
    LET h160 == H160_from_str(s) IN
    IF h160.ok THEN Ok(h160.val) ELSE Ok(Repeat(0, ADDR_LEN))

\* Faulty variant of from_str: only the canonical, lower-case text is
\* accepted.
from_str_lower_case_only(s) ==
    LET h160 == H160_from_str(s) IN
    IF h160.ok /\ s = AsciiLower(s) THEN Ok(h160.val) ELSE Err("eyre::Report", s)

\* impl FromStr for EthAddress.  The error is an eyre report whose message
\* "couldn't parse Ethereum address {s}" carries the input.
from_str(s) ==
    LET h160 == H160_from_str(s) IN
    IF h160.ok THEN Ok(h160.val) ELSE Err("eyre::Report", s)

\* impl TryFrom<String> for EthAddress
try_from(string) == from_str(string)

\* Faulty variant of KeySeg::parse: ParseKeySeg carries the text of from_str's
\* error, "couldn't parse Ethereum address {s}", instead of the string.
KeySeg_parse_error_text(string) ==
    LET r == from_str(string) IN
    IF r.ok THEN Ok(r.val)
    ELSE Err("ParseKeySeg",
             <<99, 111, 117, 108, 100, 110, 39, 116, 32, 112, 97, 114, 115, 101,
               32, 69, 116, 104, 101, 114, 101, 117, 109, 32, 97, 100, 100, 114,
               101, 115, 115, 32>> \o r.carried)

\* KeySeg::parse: from_str, with any error mapped to ParseKeySeg(string).
KeySeg_parse(string) ==
    LET r == from_str(string) IN
    IF r.ok THEN Ok(r.val) ELSE Err("ParseKeySeg", string)

-----------------------------------------------------------------------------
(* The EthAddress specification: inputs and calls *)

\* testing::DAI_ERC20_ETH_ADDRESS
DAI_ERC20_ETH_ADDRESS ==
    <<107, 23, 84, 116, 232, 144, 148, 196, 77, 169, 139, 149, 78, 237, 234,
      196, 149, 39, 29, 15>>

\* testing::DAI_ERC20_ETH_ADDRESS_CHECKSUMMED:
\* "0x6B175474E89094C44Da98b954EedeAC495271d0F"
DAI_ERC20_ETH_ADDRESS_CHECKSUMMED ==
    <<48, 120, 54, 66, 49, 55, 53, 52, 55, 52, 69, 56, 57, 48, 57, 52, 67, 52,
      52, 68, 97, 57, 56, 98, 57, 53, 52, 69, 101, 100, 101, 65, 67, 52, 57,
      53, 50, 55, 49, 100, 48, 70>>

\* testing::USDC_ERC20_ETH_ADDRESS
USDC_ERC20_ETH_ADDRESS ==
    <<160, 184, 105, 145, 198, 33, 139, 54, 193, 209, 157, 74, 46, 158, 176,
      206, 54, 6, 235, 72>>

\* Any 20 bytes are an address: the fixtures, all zero, all 0xff, and
\* 0x00, 0x01, ... 0x13 (bytes whose first hex digit is 0).
SampleAddrs ==
    { DAI_ERC20_ETH_ADDRESS,
      USDC_ERC20_ETH_ADDRESS,
      Repeat(0, ADDR_LEN),
      Repeat(255, ADDR_LEN),
      [i \in 1..ADDR_LEN |-> i - 1] }

\* Strings a caller may hand to the parsers: the checksummed fixture, the
\* string of test_eth_address_from_str_error, and short ones.
SampleTexts ==
    { DAI_ERC20_ETH_ADDRESS_CHECKSUMMED,
      \* "arbitrary string which isn't an Ethereum address"
      <<97, 114, 98, 105, 116, 114, 97, 114, 121, 32, 115, 116, 114, 105, 110,
        103, 32, 119, 104, 105, 99, 104, 32, 105, 115, 110, 39, 116, 32, 97,
        110, 32, 69, 116, 104, 101, 114, 101, 117, 109, 32, 97, 100, 100, 114,
        101, 115, 115>>,
      \* "0x123"
      <<48, 120, 49, 50, 51>>,
      \* ""
      <<>> }

\* Where the environment edits a string: the 'x' of the prefix, the first
\* digit and the last byte.
EditPositions(s) == {2, 3, Len(s)} \cap (1..Len(s))

\* The bytes the environment writes: 'g' (no hex digit), '\n' (whitespace)
\* and '0' (a hex digit).
EditBytes == {103, 10, 48}

IsAsciiLetter(c) == (c \in 65..90) \/ (c \in 97..122)

ToggleCaseByte(c) ==
    IF c \in 65..90 THEN c + 32 ELSE IF c \in 97..122 THEN c - 32 ELSE c

RenderFns == {"to_canonical", "String_from", "raw"}
ParseFns  == {"from_str", "try_from", "KeySeg_parse"}

Render(fn, a) ==
    IF fn = "to_canonical" THEN to_canonical(a)
    ELSE IF fn = "String_from" THEN String_from(a)
    ELSE raw(a)

Parse(fn, s) ==
    IF fn = "from_str" THEN from_str(s)
    ELSE IF fn = "try_from" THEN try_from(s)
    ELSE KeySeg_parse(s)

NoCall ==
    [fn |-> "none", arg |-> <<>>, ok |-> FALSE, val |-> <<>>, err |-> "",
     carried |-> <<>>]

CallOf(fn, arg, r) ==
    [fn |-> fn, arg |-> arg, ok |-> r.ok, val |-> r.val, err |-> r.err,
     carried |-> r.carried]

AddrIdle ==
    /\ addr = Repeat(0, ADDR_LEN)
    /\ text = <<>>
    /\ edits = 0
    /\ prev = NoCall
    /\ call = NoCall

UintIdle ==
    /\ ua = <<>>
    /\ ub = <<>>
    /\ uout = <<>>

EventIdle ==
    /\ ea = <<>>
    /\ eb = <<>>
    /\ eout = <<>>

\* The caller starts from an address (and no string yet), or from a string
\* (and the zero address).
AddrInit ==
    /\ \/ addr \in SampleAddrs /\ text = <<>>
       \/ addr = Repeat(0, ADDR_LEN) /\ text \in SampleTexts
    /\ edits = 0
    /\ prev = NoCall
    /\ call = NoCall

\* to_canonical / String::from / KeySeg::raw of the address in hand; the
\* string returned becomes the string in hand.
RenderAddr(fn) ==
    /\ call' = CallOf(fn, addr, Ok(Render(fn, addr)))
    /\ prev' = call
    /\ text' = Render(fn, addr)
    /\ UNCHANGED <<addr, edits>>
    /\ UNCHANGED <<uintVars, eventVars>>

\* from_str / try_from / KeySeg::parse of the string in hand; an address
\* returned becomes the address in hand.
ParseText(fn) ==
    /\ call' = CallOf(fn, text, Parse(fn, text))
    /\ prev' = call
    /\ addr' = IF Parse(fn, text).ok THEN Parse(fn, text).val ELSE addr
    /\ UNCHANGED <<text, edits>>
    /\ UNCHANGED <<uintVars, eventVars>>

\* The caller lower-cases the string in hand (the all-lower-case text of an
\* address).
Lowercase ==
    /\ text # AsciiLower(text)
    /\ text' = AsciiLower(text)
    /\ UNCHANGED <<addr, edits, prev, call>>
    /\ UNCHANGED <<uintVars, eventVars>>

\* The environment's edits: each starts a new input, so the calls made on
\* the old one are forgotten.
Edited(s) ==
    /\ edits < MaxEdits
    /\ text' = s
    /\ edits' = edits + 1
    /\ prev' = NoCall
    /\ call' = NoCall
    /\ UNCHANGED addr
    /\ UNCHANGED <<uintVars, eventVars>>

ToggleCase ==
    \E i \in EditPositions(text) :
        /\ IsAsciiLetter(text[i])
        /\ Edited([text EXCEPT ![i] = ToggleCaseByte(text[i])])

ReplaceByte ==
    \E i \in EditPositions(text), c \in EditBytes :
        /\ text[i] # c
        /\ Edited([text EXCEPT ![i] = c])

RemoveByte ==
    \E i \in EditPositions(text) :
        Edited(SubSeq(text, 1, i - 1) \o SubSeq(text, i + 1, Len(text)))

InsertByte ==
    \E i \in EditPositions(text) \cup {Len(text) + 1}, c \in EditBytes :
        Edited(SubSeq(text, 1, i - 1) \o <<c>> \o SubSeq(text, i, Len(text)))

\* The "0x" is left out.
RemovePrefix ==
    /\ Len(text) >= 2
    /\ text[1] = 48
    /\ text[2] = 120
    /\ Edited(SubSeq(text, 3, Len(text)))

Next ==
    \/ \E fn \in RenderFns : RenderAddr(fn)
    \/ \E fn \in ParseFns : ParseText(fn)
    \/ Lowercase
    \/ ToggleCase
    \/ ReplaceByte
    \/ RemoveByte
    \/ InsertByte
    \/ RemovePrefix

Init == AddrInit /\ UintIdle /\ EventIdle

Spec == Init /\ [][Next]_vars

-----------------------------------------------------------------------------
(* Properties of EthAddress *)

\* "0123456789abcdef": the lower-case hex digits in the order of their values.
HexAlphabet ==
    <<48, 49, 50, 51, 52, 53, 54, 55, 56, 57, 97, 98, 99, 100, 101, 102>>

\* The value a hex digit denotes, whatever its case: its place in HexAlphabet.
DigitDenotes(c) ==
    CHOOSE n \in 0..15 : HexAlphabet[n + 1] = AsciiLowerByte(c)

IsHexText(s) ==
    \A i \in 1..Len(s) : \E n \in 0..15 : HexAlphabet[n + 1] = AsciiLowerByte(s[i])

\* s is exactly "0x" followed by 40 hexadecimal digits.
IsAddressText(s) ==
    /\ Len(s) = 2 + 2 * ADDR_LEN
    /\ s[1] = 48
    /\ s[2] = 120
    /\ IsHexText(SubSeq(s, 3, Len(s)))

\* The 20 bytes the 40 digits of an address text denote.
BytesDenoted(s) ==
    [k \in 1..ADDR_LEN |-> 16 * DigitDenotes(s[2 * k + 1]) + DigitDenotes(s[2 * k + 2])]

\* s without its spaces, tabs, carriage returns and line feeds.
WithoutWhitespace(s) == SelectSeq(s, LAMBDA c : c \notin {32, 9, 13, 10})

\* s is 40 hexadecimal digits, after one optional leading "0x", with any
\* whitespace among the digits.
IsLenientAddressText(s) ==
    LET digits == WithoutWhitespace(
                      IF Len(s) >= 2 /\ SubSeq(s, 1, 2) = <<48, 120>>
                      THEN SubSeq(s, 3, Len(s)) ELSE s)
    IN  Len(digits) = 2 * ADDR_LEN /\ IsHexText(digits)

\* C1: address round trip.  Whenever from_str is called on the string that
\* to_canonical returned for an address b, it succeeds and returns b.
C1_RoundTrip ==
    (call.fn = "from_str" /\ prev.fn = "to_canonical" /\ call.arg = prev.val)
        => (call.ok /\ call.val = prev.arg)

\* from_str has parsed the canonical string of the DAI address.
C1_Witness ==
    /\ call.fn = "from_str"
    /\ prev.fn = "to_canonical"
    /\ call.arg = prev.val
    /\ prev.arg = DAI_ERC20_ETH_ADDRESS
    /\ call.val = DAI_ERC20_ETH_ADDRESS

\* C2 as stated: from_str returns an error for every string that is not
\* exactly "0x" followed by 40 hexadecimal digits.
C2_RejectsAllButAddressText ==
    (call.fn = "from_str" /\ ~IsAddressText(call.arg)) => ~call.ok

\* C2, amended: from_str returns an error (a value, carrying the input) for
\* every string that is not 40 hexadecimal digits after one optional leading
\* "0x", whitespace among the digits aside.
C2_RejectsAllButLenientText ==
    (call.fn = "from_str" /\ ~IsLenientAddressText(call.arg))
        => (~call.ok /\ call.err = "eyre::Report" /\ call.carried = call.arg)

\* from_str has rejected a string that has a byte too many, a byte too few or
\* a byte that is no hex digit.
C2_Witness ==
    /\ call.fn = "from_str"
    /\ ~call.ok
    /\ edits = 1
    /\ \/ Len(call.arg) = 2 * ADDR_LEN + 3 /\ IsHexText(SubSeq(call.arg, 3, Len(call.arg)))
       \/ Len(call.arg) = 2 * ADDR_LEN + 1
       \/ Len(call.arg) = 2 * ADDR_LEN + 2 /\ ~IsHexText(SubSeq(call.arg, 3, Len(call.arg)))

\* C5: case-insensitive parsing.  from_str of an address text in any letter
\* case of its digits succeeds and returns the bytes the digits denote; two
\* texts that differ only in letter case parse to the same address.
C5_CaseInsensitive ==
    /\ (call.fn = "from_str" /\ IsAddressText(call.arg))
           => (call.ok /\ call.val = BytesDenoted(call.arg))
    /\ (/\ call.fn = "from_str"
        /\ prev.fn = "from_str"
        /\ IsAddressText(prev.arg)
        /\ AsciiLower(prev.arg) = call.arg)
           => (prev.ok /\ call.ok /\ prev.val = call.val)

\* from_str has parsed the checksummed text of the DAI address and then its
\* lower-case text.
C5_Witness ==
    /\ call.fn = "from_str"
    /\ prev.fn = "from_str"
    /\ prev.arg = DAI_ERC20_ETH_ADDRESS_CHECKSUMMED
    /\ call.arg = AsciiLower(prev.arg)
    /\ call.arg # prev.arg
    /\ call.val = DAI_ERC20_ETH_ADDRESS

\* C6: canonical text form.  to_canonical, the conversion into String and
\* KeySeg::raw return "0x" and 40 lower-case hex digits that denote the 20
\* bytes in order; an address parsed from a mixed-case address text renders
\* as the lower-case form of that text; and try_from of the rendered text
\* gives back the same bytes.
C6_CanonicalText ==
    /\ call.fn \in RenderFns
           => /\ IsAddressText(call.val)
              /\ call.val = AsciiLower(call.val)
              /\ BytesDenoted(call.val) = call.arg
    /\ (/\ call.fn \in RenderFns
        /\ prev.fn \in {"from_str", "try_from"}
        /\ prev.ok
        /\ call.arg = prev.val
        /\ IsAddressText(prev.arg))
           => call.val = AsciiLower(prev.arg)
    /\ (call.fn = "try_from" /\ prev.fn = "String_from" /\ call.arg = prev.val)
           => (call.ok /\ call.val = prev.arg)

\* The address parsed from the checksummed DAI text has been converted into
\* a String, which is not the text it was parsed from.
C6_Witness ==
    /\ call.fn = "String_from"
    /\ prev.fn = "from_str"
    /\ prev.arg = DAI_ERC20_ETH_ADDRESS_CHECKSUMMED
    /\ call.arg = prev.val
    /\ call.val # prev.arg

\* C9: storage key segment errors.  KeySeg::parse succeeds exactly when
\* from_str does, with the same address; its error is ParseKeySeg carrying
\* the input unchanged, never from_str's error; and it gives back a for
\* a.raw().
C9_KeySeg ==
    /\ (call.fn = "KeySeg_parse" /\ prev.fn = "from_str" /\ prev.arg = call.arg)
           => (call.ok = prev.ok /\ call.val = prev.val)
    /\ (call.fn = "KeySeg_parse" /\ ~call.ok)
           => (call.err = "ParseKeySeg" /\ call.carried = call.arg)
    /\ (call.fn = "KeySeg_parse" /\ prev.fn = "raw" /\ call.arg = prev.val)
           => (call.ok /\ call.val = prev.arg)

\* KeySeg::parse has failed on a non-empty string that from_str had just
\* rejected.
C9_Witness ==
    /\ call.fn = "KeySeg_parse"
    /\ prev.fn = "from_str"
    /\ prev.arg = call.arg
    /\ ~prev.ok
    /\ ~call.ok
    /\ call.carried # <<>>

-----------------------------------------------------------------------------
(* Uint *)

\* pub struct Uint(pub [u64; 4]): the number of words.
N_WORDS == 4

\* The bytes of a u64.
WORD_BYTES == 8

\* A u64 is kept as its base-256 numeral of 8 digits, most significant digit
\* first (the model checker's integers are 32 bits wide).  U64 writes the
\* numeral of a number below 2^31.
U64(n) ==
    <<0, 0, 0, 0, (n \div 16777216) % 256, (n \div 65536) % 256,
      (n \div 256) % 256, n % 256>>

\* u64::MAX
U64_MAX == Repeat(255, WORD_BYTES)

\* Ord of u8 and of any number that fits a machine integer of the model:
\* -1 (Less), 0 (Equal), 1 (Greater).
IntCmp(x, y) == IF x < y THEN -1 ELSE IF x > y THEN 1 ELSE 0

\* The first comparison of cs that is not Equal, or Equal: how the derived Ord
\* of a struct combines the comparisons of its fields, in declaration order.
FirstNonEqual(cs) ==
    IF \A i \in 1..Len(cs) : cs[i] = 0 THEN 0
    ELSE cs[CHOOSE i \in 1..Len(cs) : cs[i] # 0 /\ \A j \in 1..(i - 1) : cs[j] = 0]

MinLen(x, y) == IF Len(x) < Len(y) THEN Len(x) ELSE Len(y)

\* Ord of arrays, slices, Vec and str: lexicographic.  cs is the comparisons
\* of the elements at the places both sequences have; if all are Equal the
\* shorter sequence is Less.
SeqCmp(cs, lenx, leny) ==
    IF FirstNonEqual(cs) # 0 THEN FirstNonEqual(cs) ELSE IntCmp(lenx, leny)

\* Ord of a sequence of bytes.
BytesCmp(x, y) ==
    SeqCmp([i \in 1..MinLen(x, y) |-> IntCmp(x[i], y[i])], Len(x), Len(y))

\* Ord of u64: numeric, which on numerals of equal length is the order of
\* the first digit that differs.
U64Cmp(x, y) == BytesCmp(x, y)

\* #[derive(PartialOrd, Ord)] on Uint([u64; 4]): the order of the array, which
\* compares element 0 first.
UintCmp(a, b) ==
    SeqCmp([i \in 1..N_WORDS |-> U64Cmp(a[i], b[i])], N_WORDS, N_WORDS)

\* impl From<u64> for Uint: ethUint::from(value) is [value, 0, 0, 0].
Uint_from(value) == <<value>> \o Repeat(U64(0), N_WORDS - 1)

\* byteorder's LittleEndian::write_u64: the byte of weight 256^j at offset j.
write_u64_le(n) == Reverse(n)

\* Faulty variant of to_bytes: to_big_endian, the most significant word and
\* byte first.
to_bytes_big_endian(self) ==
    Concat([i \in 1..N_WORDS |-> self[N_WORDS + 1 - i]])

\* Uint::to_bytes: U256::to_little_endian writes word i at bytes[8 * i ..].
to_bytes(self) == Concat([i \in 1..N_WORDS |-> write_u64_le(self[i])])

-----------------------------------------------------------------------------
(* The Uint specification *)

\* 0, 1, 123 (testing::arbitrary_nonce), 0x0102030405060708 and u64::MAX.
SampleWords == {U64(0), U64(1), <<1, 2, 3, 4, 5, 6, 7, 8>>, U64_MAX}

SampleU64 == SampleWords \cup {U64(123)}

\* The first Uint has any sample word in any place, the second 0 or 1.
SampleUintsA == [1..N_WORDS -> SampleWords]
SampleUintsB == [1..N_WORDS -> {U64(0), U64(1)}]

NoUintOp == [op |-> "none"]

UintInit ==
    /\ ua \in SampleUintsA
    /\ ub \in SampleUintsB
    /\ uout = NoUintOp

\* ua = Uint::from(v)
UintFromU64 ==
    \E v \in SampleU64 :
        /\ ua' = Uint_from(v)
        /\ uout' = [op |-> "from", arg |-> v, val |-> Uint_from(v)]
        /\ UNCHANGED ub
        /\ UNCHANGED <<addrVars, eventVars>>

\* ua.to_bytes(); of_u64 is the u64 that ua was just made from, if it was.
UintToBytes ==
    /\ uout' = [op |-> "to_bytes", arg |-> ua, val |-> to_bytes(ua),
                of_u64 |-> IF uout.op = "from" THEN uout.arg ELSE <<>>]
    /\ UNCHANGED <<ua, ub>>
    /\ UNCHANGED <<addrVars, eventVars>>

\* ua.cmp(&ub)
UintCompare ==
    /\ uout' = [op |-> "cmp", a |-> ua, b |-> ub, val |-> UintCmp(ua, ub)]
    /\ UNCHANGED <<ua, ub>>
    /\ UNCHANGED <<addrVars, eventVars>>

UintSpecNext ==
    \/ UintFromU64
    \/ UintToBytes
    \/ UintCompare

UintSpecInit == AddrIdle /\ UintInit /\ EventIdle

UintSpec == UintSpecInit /\ [][UintSpecNext]_vars

-----------------------------------------------------------------------------
(* Properties of Uint *)

\* The base-256 numeral of the 256-bit number a Uint denotes, the sum of
\* word[i] * 2^(64 * i): the words from the most significant (word 3) down.
Numeral256(u) == Concat([i \in 1..N_WORDS |-> u[N_WORDS + 1 - i]])

\* The number denoted by a is less than the number denoted by b.
NumericLess(a, b) ==
    \E k \in 1..(N_WORDS * WORD_BYTES) :
        /\ Numeral256(a)[k] < Numeral256(b)[k]
        /\ \A m \in 1..(k - 1) : Numeral256(a)[m] = Numeral256(b)[m]

\* C7: Uint ordering is numeric ordering.  a < b under the type's ordering
\* if and only if the number denoted by a is less than the one denoted by b.
C7_OrderIsNumeric ==
    uout.op = "cmp" => ((uout.val = -1) <=> NumericLess(uout.a, uout.b))

\* C8: Uint byte layout.  to_bytes returns 32 bytes, byte 8*i+j being byte j
\* (weight 256^j) of word i; Uint::from(v) is v in word 0 and zero above, so
\* its bytes are those of v, least significant first, and then 24 zeros.
C8_ByteLayout ==
    /\ uout.op = "to_bytes"
           => /\ Len(uout.val) = 32
              /\ \A i \in 0..(N_WORDS - 1), j \in 0..(WORD_BYTES - 1) :
                     uout.val[8 * i + j + 1] = uout.arg[i + 1][WORD_BYTES - j]
    /\ uout.op = "from"
           => /\ uout.val[1] = uout.arg
              /\ \A i \in 2..N_WORDS : uout.val[i] = U64(0)
    /\ (uout.op = "to_bytes" /\ uout.of_u64 # <<>>)
           => /\ \A j \in 0..7 : uout.val[j + 1] = uout.of_u64[WORD_BYTES - j]
              /\ \A k \in 9..32 : uout.val[k] = 0
    /\ (uout.op = "to_bytes" /\ uout.of_u64 = U64(123))
           => uout.val = <<123>> \o Repeat(0, 31)

\* to_bytes of Uint::from(123) has been taken, and of a Uint whose four
\* words all differ from zero.
C8_Witness ==
    /\ uout.op = "to_bytes"
    /\ \/ uout.of_u64 = U64(123) /\ uout.val[1] = 123
       \/ uout.arg = <<U64(1), <<1, 2, 3, 4, 5, 6, 7, 8>>, U64_MAX, U64(1)>>

-----------------------------------------------------------------------------
(* The types of other modules that the events hold *)

\* token::Amount: a u64 number of micro units, ordered as the number and
\* written by Borsh as the u64.
Amount_from(n) == U64(n)
AmountCmp(x, y) == U64Cmp(x, y)
Amount_borsh(x) == write_u64_le(x)

\* address::Address, an opaque value: here an established address, ordered by
\* its 20-byte hash and written by Borsh as its enum tag and the hash.
Address_established(hash) == [kind |-> "Established", hash |-> hash]
AddressCmp(x, y) == BytesCmp(x.hash, y.hash)
Address_borsh(x) == <<0>> \o x.hash

\* keccak::KeccakHash([u8; 32]), ordered and written as its bytes.
KeccakHashCmp(x, y) == BytesCmp(x, y)
KeccakHash_borsh(x) == x

-----------------------------------------------------------------------------
(* EthereumEvent and its payload records *)

\* The variants of EthereumEvent in declaration order; a variant's index is
\* its discriminant and its Borsh tag.
Variants ==
    <<"TransfersToNamada", "TransfersToEthereum", "ValidatorSetUpdate",
      "NewContract", "UpgradedContract", "UpdateBridgeWhitelist">>

VariantIndex(v) == (CHOOSE i \in 1..Len(Variants) : Variants[i] = v) - 1

TransferToNamada(amount, asset, receiver) ==
    [amount |-> amount, asset |-> asset, receiver |-> receiver]

TransferToEthereum(amount, asset, receiver, gas_amount, gas_payer) ==
    [amount |-> amount, asset |-> asset, receiver |-> receiver,
     gas_amount |-> gas_amount, gas_payer |-> gas_payer]

TokenWhitelist(token, cap) == [token |-> token, cap |-> cap]

TransfersToNamada(nonce, transfers) ==
    [variant |-> "TransfersToNamada", nonce |-> nonce, transfers |-> transfers]

TransfersToEthereum(nonce, transfers) ==
    [variant |-> "TransfersToEthereum", nonce |-> nonce, transfers |-> transfers]

ValidatorSetUpdate(nonce, bridge_validator_hash, governance_validator_hash) ==
    [variant |-> "ValidatorSetUpdate", nonce |-> nonce,
     bridge_validator_hash |-> bridge_validator_hash,
     governance_validator_hash |-> governance_validator_hash]

NewContract(name, address) ==
    [variant |-> "NewContract", name |-> name, address |-> address]

UpgradedContract(name, address) ==
    [variant |-> "UpgradedContract", name |-> name, address |-> address]

UpdateBridgeWhitelist(nonce, whitelist) ==
    [variant |-> "UpdateBridgeWhitelist", nonce |-> nonce, whitelist |-> whitelist]

\* Ord of EthAddress([u8; 20]) and of String: the order of the bytes.
EthAddressCmp(x, y) == BytesCmp(x, y)
StringCmp(x, y) == BytesCmp(x, y)

\* #[derive(PartialOrd, Ord)] on TransferToNamada
TransferToNamadaCmp(x, y) ==
    FirstNonEqual(<<AmountCmp(x.amount, y.amount),
                    EthAddressCmp(x.asset, y.asset),
                    AddressCmp(x.receiver, y.receiver)>>)

\* #[derive(PartialOrd, Ord)] on TransferToEthereum
TransferToEthereumCmp(x, y) ==
    FirstNonEqual(<<AmountCmp(x.amount, y.amount),
                    EthAddressCmp(x.asset, y.asset),
                    EthAddressCmp(x.receiver, y.receiver),
                    AmountCmp(x.gas_amount, y.gas_amount),
                    AddressCmp(x.gas_payer, y.gas_payer)>>)

\* #[derive(PartialOrd, Ord)] on TokenWhitelist
TokenWhitelistCmp(x, y) ==
    FirstNonEqual(<<EthAddressCmp(x.token, y.token), AmountCmp(x.cap, y.cap)>>)

\* The comparisons of the fields of two events of the same variant, in
\* declaration order.
FieldCmps(a, b) ==
    CASE a.variant = "TransfersToNamada" ->
            <<UintCmp(a.nonce, b.nonce),
              SeqCmp([i \in 1..MinLen(a.transfers, b.transfers) |->
                         TransferToNamadaCmp(a.transfers[i], b.transfers[i])],
                     Len(a.transfers), Len(b.transfers))>>
      [] a.variant = "TransfersToEthereum" ->
            <<UintCmp(a.nonce, b.nonce),
              SeqCmp([i \in 1..MinLen(a.transfers, b.transfers) |->
                         TransferToEthereumCmp(a.transfers[i], b.transfers[i])],
                     Len(a.transfers), Len(b.transfers))>>
      [] a.variant = "ValidatorSetUpdate" ->
            <<UintCmp(a.nonce, b.nonce),
              KeccakHashCmp(a.bridge_validator_hash, b.bridge_validator_hash),
              KeccakHashCmp(a.governance_validator_hash, b.governance_validator_hash)>>
      [] a.variant \in {"NewContract", "UpgradedContract"} ->
            <<StringCmp(a.name, b.name), EthAddressCmp(a.address, b.address)>>
      [] a.variant = "UpdateBridgeWhitelist" ->
            <<UintCmp(a.nonce, b.nonce),
              SeqCmp([i \in 1..MinLen(a.whitelist, b.whitelist) |->
                         TokenWhitelistCmp(a.whitelist[i], b.whitelist[i])],
                     Len(a.whitelist), Len(b.whitelist))>>

\* Faulty variant of the order of EthereumEvent: the discriminants alone.
EthereumEventCmp_discriminant_only(a, b) ==
    IntCmp(VariantIndex(a.variant), VariantIndex(b.variant))

\* #[derive(PartialOrd, Ord)] on EthereumEvent: the discriminants first, then
\* the fields of the common variant.
EthereumEventCmp(a, b) ==
    IF VariantIndex(a.variant) # VariantIndex(b.variant)
    THEN IntCmp(VariantIndex(a.variant), VariantIndex(b.variant))
    ELSE FirstNonEqual(FieldCmps(a, b))

\* #[derive(PartialEq, Eq)] on EthereumEvent: the same variant and equal
\* fields.
EthereumEventEq(a, b) ==
    /\ VariantIndex(a.variant) = VariantIndex(b.variant)
    /\ a = b

\* Borsh of a u32, little-endian: the length prefix of Vec and String.
u32_borsh(n) ==
    <<n % 256, (n \div 256) % 256, (n \div 65536) % 256, (n \div 16777216) % 256>>

\* Borsh of Uint([u64; 4]): the array's elements in order, each a
\* little-endian u64, with no length.
Uint_borsh(u) == Concat([i \in 1..N_WORDS |-> write_u64_le(u[i])])

\* Borsh of EthAddress([u8; 20]): the bytes.
EthAddress_borsh(a) == a

\* Borsh of String: the length, then the UTF-8 bytes.
String_borsh(s) == u32_borsh(Len(s)) \o s

\* Borsh of Vec<T>: the length, then the elements in their order; elems is
\* the encodings of the elements.
Vec_borsh(elems) == u32_borsh(Len(elems)) \o Concat(elems)

\* #[derive(BorshSerialize)] on the payload records: the fields in order.
TransferToNamada_borsh(x) ==
    Amount_borsh(x.amount) \o EthAddress_borsh(x.asset) \o Address_borsh(x.receiver)

TransferToEthereum_borsh(x) ==
    Amount_borsh(x.amount) \o EthAddress_borsh(x.asset)
        \o EthAddress_borsh(x.receiver) \o Amount_borsh(x.gas_amount)
        \o Address_borsh(x.gas_payer)

TokenWhitelist_borsh(x) == EthAddress_borsh(x.token) \o Amount_borsh(x.cap)

\* The Borsh encoding of the fields of an event, in declaration order.
Fields_borsh(e) ==
    CASE e.variant = "TransfersToNamada" ->
            Uint_borsh(e.nonce)
                \o Vec_borsh([i \in 1..Len(e.transfers) |->
                                 TransferToNamada_borsh(e.transfers[i])])
      [] e.variant = "TransfersToEthereum" ->
            Uint_borsh(e.nonce)
                \o Vec_borsh([i \in 1..Len(e.transfers) |->
                                 TransferToEthereum_borsh(e.transfers[i])])
      [] e.variant = "ValidatorSetUpdate" ->
            Uint_borsh(e.nonce) \o KeccakHash_borsh(e.bridge_validator_hash)
                \o KeccakHash_borsh(e.governance_validator_hash)
      [] e.variant \in {"NewContract", "UpgradedContract"} ->
            String_borsh(e.name) \o EthAddress_borsh(e.address)
      [] e.variant = "UpdateBridgeWhitelist" ->
            Uint_borsh(e.nonce)
                \o Vec_borsh([i \in 1..Len(e.whitelist) |->
                                 TokenWhitelist_borsh(e.whitelist[i])])

\* Faulty variant of the encoding of EthereumEvent: the fields without the
\* variant's index.
try_to_vec_untagged(e) == Fields_borsh(e)

\* #[derive(BorshSerialize)] on EthereumEvent, as hash() calls it
\* (self.try_to_vec()): the variant's index as one byte, then its fields.
\* hash() returns the SHA-256 digest of these bytes.
try_to_vec(e) == <<VariantIndex(e.variant)>> \o Fields_borsh(e)

-----------------------------------------------------------------------------
(* The EthereumEvent specification *)

\* The longest batch of transfers, or whitelist, of an event.
MaxTransfers == 2

\* The sequences over S of at most n elements.
SeqsUpTo(S, n) == UNION {[1..k -> S] : k \in 0..n}

\* testing::arbitrary_nonce
arbitrary_nonce == Uint_from(U64(123))

\* testing::arbitrary_amount
arbitrary_amount == Amount_from(1000)

\* testing::arbitrary_eth_address
arbitrary_eth_address == DAI_ERC20_ETH_ADDRESS

\* testing::arbitrary_keccak_hash
arbitrary_keccak_hash == Repeat(0, 32)

\* testing::arbitrary_single_transfer
arbitrary_single_transfer(nonce, receiver) ==
    TransfersToNamada(nonce,
        <<TransferToNamada(arbitrary_amount, arbitrary_eth_address, receiver)>>)

\* Two receivers.
Receiver1 == Address_established(Repeat(1, ADDR_LEN))
Receiver2 == Address_established(Repeat(2, ADDR_LEN))

\* 123, 124 and 2^64: the last two differ from 123 in word 0 and in word 1.
SampleNonces ==
    { arbitrary_nonce,
      Uint_from(U64(124)),
      <<U64(0), U64(1), U64(0), U64(0)>> }

\* Transfers that differ in the receiver, the last field.
SampleTransfersToNamada ==
    { TransferToNamada(arbitrary_amount, arbitrary_eth_address, Receiver1),
      TransferToNamada(arbitrary_amount, arbitrary_eth_address, Receiver2) }

\* Transfers that differ in the amount, the first field.
SampleTransfersToEthereum ==
    { TransferToEthereum(arbitrary_amount, arbitrary_eth_address,
                         USDC_ERC20_ETH_ADDRESS, Amount_from(1), Receiver1),
      TransferToEthereum(Amount_from(1001), arbitrary_eth_address,
                         USDC_ERC20_ETH_ADDRESS, Amount_from(1), Receiver1) }

SampleWhitelist ==
    { TokenWhitelist(DAI_ERC20_ETH_ADDRESS, arbitrary_amount),
      TokenWhitelist(USDC_ERC20_ETH_ADDRESS, arbitrary_amount) }

SampleHashes == {arbitrary_keccak_hash, Repeat(255, 32)}

\* "", "k" and "k" followed by the first byte of the DAI address.
SampleNames == {<<>>, <<107>>, <<107, 107>>}

SampleEvents ==
    {TransfersToNamada(n, ts) :
        n \in SampleNonces, ts \in SeqsUpTo(SampleTransfersToNamada, MaxTransfers)}
    \cup
    {TransfersToEthereum(n, ts) :
        n \in SampleNonces, ts \in SeqsUpTo(SampleTransfersToEthereum, MaxTransfers)}
    \cup
    {ValidatorSetUpdate(n, b, g) :
        n \in SampleNonces, b \in SampleHashes, g \in SampleHashes}
    \cup
    {NewContract(s, a) :
        s \in SampleNames, a \in {DAI_ERC20_ETH_ADDRESS, USDC_ERC20_ETH_ADDRESS}}
    \cup
    {UpgradedContract(s, a) :
        s \in SampleNames, a \in {DAI_ERC20_ETH_ADDRESS, USDC_ERC20_ETH_ADDRESS}}
    \cup
    {UpdateBridgeWhitelist(n, ws) :
        n \in SampleNonces, ws \in SeqsUpTo(SampleWhitelist, MaxTransfers)}

NoEventOp == [op |-> "none"]

EventInit ==
    /\ ea \in SampleEvents
    /\ eb \in SampleEvents
    /\ eout = NoEventOp

\* ea.cmp(&eb), eb.cmp(&ea) and ea == eb
EventCompare ==
    /\ eout' = [op |-> "cmp",
                ord |-> EthereumEventCmp(ea, eb),
                rev |-> EthereumEventCmp(eb, ea),
                eq |-> EthereumEventEq(ea, eb)]
    /\ UNCHANGED <<ea, eb>>
    /\ UNCHANGED <<addrVars, uintVars>>

\* The bytes that ea.hash() and eb.hash() digest.
EventEncode ==
    /\ eout' = [op |-> "try_to_vec", a |-> try_to_vec(ea), b |-> try_to_vec(eb)]
    /\ UNCHANGED <<ea, eb>>
    /\ UNCHANGED <<addrVars, uintVars>>

EventSpecNext ==
    \/ EventCompare
    \/ EventEncode

EventSpecInit == AddrIdle /\ UintIdle /\ EventInit

EventSpec == EventSpecInit /\ [][EventSpecNext]_vars

-----------------------------------------------------------------------------
(* Properties of EthereumEvent *)

\* C4: sensitivity of the canonical encoding.  Two events that differ (in
\* variant, in a field, in the number or the order of the elements of a
\* sequence) have different Borsh encodings, so hash() digests different
\* bytes; equal events have the same encoding.
C4_EncodingInjective ==
    eout.op = "try_to_vec" => ((eout.a = eout.b) <=> (ea = eb))

\* Encoded: the single transfer with nonce 123 and with nonce 124; the same
\* two transfers in both orders; the same name and address as a new and as an
\* upgraded contract.
C4_Witness ==
    /\ eout.op = "try_to_vec"
    /\ eout.a # eout.b
    /\ \/ /\ ea = arbitrary_single_transfer(arbitrary_nonce, Receiver1)
          /\ eb = arbitrary_single_transfer(Uint_from(U64(124)), Receiver1)
       \/ /\ ea.variant = "TransfersToNamada"
          /\ eb.variant = "TransfersToNamada"
          /\ ea.nonce = eb.nonce
          /\ Len(ea.transfers) = 2
          /\ eb.transfers = Reverse(ea.transfers)
       \/ /\ ea.variant = "NewContract"
          /\ eb = UpgradedContract(ea.name, ea.address)

\* Events to stand between two others: one or two of each variant.
ProbeEvents ==
    { arbitrary_single_transfer(arbitrary_nonce, Receiver1),
      TransfersToNamada(Uint_from(U64(124)), <<>>),
      TransfersToEthereum(arbitrary_nonce, <<>>),
      ValidatorSetUpdate(arbitrary_nonce, arbitrary_keccak_hash, Repeat(255, 32)),
      NewContract(<<107>>, DAI_ERC20_ETH_ADDRESS),
      UpgradedContract(<<107>>, DAI_ERC20_ETH_ADDRESS),
      UpgradedContract(<<>>, USDC_ERC20_ETH_ADDRESS),
      UpdateBridgeWhitelist(arbitrary_nonce, <<>>) }

\* The place of a variant in the declaration: TransfersToNamada is 1, ...
\* UpdateBridgeWhitelist is 6.
DeclaredPlace(e) ==
    CASE e.variant = "TransfersToNamada" -> 1
      [] e.variant = "TransfersToEthereum" -> 2
      [] e.variant = "ValidatorSetUpdate" -> 3
      [] e.variant = "NewContract" -> 4
      [] e.variant = "UpgradedContract" -> 5
      [] e.variant = "UpdateBridgeWhitelist" -> 6

\* C10: variant discrimination.  Events of different variants are never
\* equal and compare as their variants are declared, whatever their fields;
\* events of the same variant compare as their first differing field, in
\* declaration order; and the order is total: any two events are Less, Equal
\* or Greater, Equal exactly when they are the same event, the reverse
\* comparison is the opposite, and the order is transitive.
C10_VariantDiscrimination ==
    eout.op = "cmp" =>
        /\ DeclaredPlace(ea) < DeclaredPlace(eb) => (eout.ord = -1 /\ ~eout.eq)
        /\ DeclaredPlace(ea) > DeclaredPlace(eb) => (eout.ord = 1 /\ ~eout.eq)
        /\ (ea.variant = eb.variant /\ "nonce" \in DOMAIN ea /\ ea.nonce # eb.nonce)
               => eout.ord = UintCmp(ea.nonce, eb.nonce)
        /\ (ea.variant = eb.variant /\ "name" \in DOMAIN ea /\ ea.name # eb.name)
               => eout.ord = StringCmp(ea.name, eb.name)
        /\ (ea.variant = eb.variant /\ "name" \in DOMAIN ea /\ ea.name = eb.name)
               => eout.ord = EthAddressCmp(ea.address, eb.address)
        /\ eout.ord \in {-1, 0, 1}
        /\ eout.rev = -eout.ord
        /\ (eout.ord = 0) <=> (ea = eb)
        /\ eout.eq <=> (ea = eb)
        /\ \A c \in ProbeEvents :
               (eout.ord <= 0 /\ EthereumEventCmp(eb, c) <= 0)
                   => EthereumEventCmp(ea, c) <= 0

\* Compared: a batch of transfers to Namada and one to Ethereum with the same
\* nonce and no transfers.
C10_Witness ==
    /\ eout.op = "cmp"
    /\ ea.variant = "TransfersToNamada"
    /\ eb.variant = "TransfersToEthereum"
    /\ ea.nonce = eb.nonce
    /\ ea.transfers = eb.transfers
    /\ eout.ord = -1
    /\ ~eout.eq

=============================================================================
